---- MODULE Spec2Model ----
(***************************************************************************)
(* Commute Briefing: the generation orchestrator of App (handleGenerate,    *)
(* the article queue handlers and the "clear state when the list becomes    *)
(* empty" effect) together with the error classification and the two        *)
(* remote operations of services/geminiService.ts.                          *)
(*                                                                          *)
(* One action is one synchronous block of the single-threaded event loop:   *)
(* an event handler together with the React effects its state updates       *)
(* trigger, or the continuation of handleGenerate that runs when one of     *)
(* its two awaited promises settles.                                        *)
(*                                                                          *)
(* The second part is the Player component: the transport handlers, the     *)
(* pitch slider, the progress loop and the completion events of its Web     *)
(* Audio source nodes.                                                      *)
(***************************************************************************)
EXTENDS Integers, Sequences, FiniteSets, TLC

\* ---------------------------------------------------------------- bounds
MaxArticles == 1      \* distinct article ids the user can queue
MaxRequests == 2      \* handleGenerate calls that pass the guards in one run
MaxTime     == 2      \* last millisecond the wall clock reaches
MaxDuration == 4      \* longest audio buffer, in seconds
MaxClock    == 6      \* last second the AudioContext clock reaches

ArticleIds == 1..MaxArticles

\* ------------------------------------------------- strings as characters
\* A message is the sequence of its characters, so that toLowerCase() and
\* includes() are computed the way String.prototype computes them.
UpperCase == <<"A","B","C","D","E","F","G","H","I","J","K","L","M","N","O","P","Q","R","S","T","U","V","W","X","Y","Z">>
LowerCase == <<"a","b","c","d","e","f","g","h","i","j","k","l","m","n","o","p","q","r","s","t","u","v","w","x","y","z">>

toLowerChar(c) ==
    IF \E i \in 1..Len(UpperCase) : UpperCase[i] = c
    THEN LowerCase[CHOOSE i \in 1..Len(UpperCase) : UpperCase[i] = c]
    ELSE c

toLowerCase(s) == [i \in 1..Len(s) |-> toLowerChar(s[i])]

includes(s, k) ==
    \E i \in 1..(Len(s) - Len(k) + 1) : SubSeq(s, i, i + Len(k) - 1) = k

\* The rejection values the two remote operations produce.  Entry i is the
\* `message` of error i, as characters (ErrorMessage) and as the string
\* that is displayed when the message is passed through (ErrorText).
\* Entries 1 and 2 are the messages thrown by geminiService.ts itself, the
\* others are remote-service failures, the last one an error whose message
\* is empty or absent.
ErrorMessage == <<
    <<"A","P","I","_","K","E","Y"," ","e","n","v","i","r","o","n","m","e","n","t"," ","v","a","r","i","a","b","l","e"," ","i","s"," ","m","i","s","s","i","n","g",".">>,
    <<"N","o"," ","a","u","d","i","o"," ","d","a","t","a"," ","r","e","t","u","r","n","e","d"," ","f","r","o","m"," ","G","e","m","i","n","i",".">>,
    <<"Q","u","o","t","a"," ","e","x","c","e","e","d","e","d">>,
    <<"R","e","s","p","o","n","s","e"," ","B","L","O","C","K","E","D">>,
    <<"F","a","i","l","e","d"," ","t","o"," ","f","e","t","c","h">>,
    <<"5","0","3"," ","O","v","e","r","l","o","a","d","e","d">>,
    <<"N","e","t","w","o","r","k"," ","q","u","o","t","a">>,
    <<"B","a","d"," ","r","e","q","u","e","s","t">>,
    <<>> >>

ErrorText == <<
    "API_KEY environment variable is missing.",
    "No audio data returned from Gemini.",
    "Quota exceeded",
    "Response BLOCKED",
    "Failed to fetch",
    "503 Overloaded",
    "Network quota",
    "Bad request",
    "" >>

Errors == 1..Len(ErrorMessage)

\* The error generateSpeech throws itself: "No audio data returned from Gemini."
NoAudioError == 2

\* ------------------------------------------------ getFriendlyErrorMessage
\* FriendlyFor with the network test moved before the quota test.
FriendlyForNetworkFirst(error, msg) ==
    IF includes(msg, <<"a","p","i","_","k","e","y">>) \/ includes(msg, <<"a","p","i","k","e","y">>)
    THEN "API Key is missing or invalid. Please check your settings."
    ELSE IF includes(msg, <<"n","e","t","w","o","r","k">>) \/ includes(msg, <<"f","e","t","c","h">>)
            \/ includes(msg, <<"c","o","n","n","e","c","t","i","o","n">>)
    THEN "Network connection error. Please check your internet and try again."
    ELSE IF includes(msg, <<"s","a","f","e","t","y">>) \/ includes(msg, <<"b","l","o","c","k","e","d">>)
            \/ includes(msg, <<"h","a","r","m","f","u","l">>)
    THEN "Content was flagged by safety filters. Please review and edit your articles."
    ELSE IF includes(msg, <<"q","u","o","t","a">>) \/ includes(msg, <<"4","2","9">>)
    THEN "API usage limit exceeded. Please try again later."
    ELSE IF includes(msg, <<"5","0","3">>) \/ includes(msg, <<"o","v","e","r","l","o","a","d","e","d">>)
            \/ includes(msg, <<"s","e","r","v","i","c","e"," ","u","n","a","v","a","i","l","a","b","l","e">>)
    THEN "The AI service is currently overloaded. Please wait a moment and try again."
    ELSE IF includes(msg, <<"n","o"," ","a","u","d","i","o"," ","d","a","t","a">>)
    THEN "Audio generation failed to return data. Please try again."
    ELSE IF ErrorMessage[error] # <<>>
    THEN ErrorText[error]
    ELSE "An unexpected error occurred. Please try again."

\* lines 17-36: the tests on the lower-cased message, in source order, and
\* the fallback `error.message || "An unexpected error occurred ..."`.
FriendlyFor(error, msg) ==
    IF includes(msg, <<"a","p","i","_","k","e","y">>) \/ includes(msg, <<"a","p","i","k","e","y">>)
    THEN "API Key is missing or invalid. Please check your settings."
    ELSE IF includes(msg, <<"q","u","o","t","a">>) \/ includes(msg, <<"4","2","9">>)
    THEN "API usage limit exceeded. Please try again later."
    ELSE IF includes(msg, <<"s","a","f","e","t","y">>) \/ includes(msg, <<"b","l","o","c","k","e","d">>)
            \/ includes(msg, <<"h","a","r","m","f","u","l">>)
    THEN "Content was flagged by safety filters. Please review and edit your articles."
    ELSE IF includes(msg, <<"n","e","t","w","o","r","k">>) \/ includes(msg, <<"f","e","t","c","h">>)
            \/ includes(msg, <<"c","o","n","n","e","c","t","i","o","n">>)
    THEN "Network connection error. Please check your internet and try again."
    ELSE IF includes(msg, <<"5","0","3">>) \/ includes(msg, <<"o","v","e","r","l","o","a","d","e","d">>)
            \/ includes(msg, <<"s","e","r","v","i","c","e"," ","u","n","a","v","a","i","l","a","b","l","e">>)
    THEN "The AI service is currently overloaded. Please wait a moment and try again."
    ELSE IF includes(msg, <<"n","o"," ","a","u","d","i","o"," ","d","a","t","a">>)
    THEN "Audio generation failed to return data. Please try again."
    ELSE IF ErrorMessage[error] # <<>>
    THEN ErrorText[error]
    ELSE "An unexpected error occurred. Please try again."

\* getFriendlyErrorMessage without the toLowerCase() of line 15.
getFriendlyErrorMessageCaseSensitive(error) == FriendlyFor(error, ErrorMessage[error])

\* lines 14-37.
getFriendlyErrorMessage(error) == FriendlyFor(error, toLowerCase(ErrorMessage[error]))

\* getFriendlyErrorMessage as a table over the rejection values.
FriendlyMessage == [error \in Errors |-> getFriendlyErrorMessage(error)]

\* ------------------------------------------------------------------ state
VARIABLES
    articles,           \* useState<Article[]>: the queue, as the ids of its items
    audioContextRef,    \* "null" until the mount effect has run, then "open"
    now,                \* the wall clock Date.now() reads, in milliseconds
    lastGenRequestRef,  \* useRef<number>(0): marker of the latest request
    generationState,    \* [status, error]
    summaryText,        \* 0 = null, r = the summary request r received
    audioBuffer,        \* 0 = null, r = the buffer decoded for request r
    requests,           \* the handleGenerate activations, in issue order
    event               \* the block of code that ran last

\* The Player component (Player.tsx): its props, its state and its refs.
\* Times are whole units of the AudioContext clock (the seconds of the
\* transport scenarios).  `progress` is kept
\* as the percentage times `duration`, so that every value the code can
\* compute is a whole number: 100% is 100 * duration.
VARIABLES
    duration,           \* audioBuffer.duration; 0 while no Player is mounted
    currentTime,        \* audioContext.currentTime
    isPlaying,          \* useState(false)
    progress,           \* useState(0), times duration
    pitch,              \* useState(0), in cents
    sourceNodeRef,      \* Null, or the source node the ref refers to
    startTimeRef,       \* useRef<number>(0)
    pauseTimeRef,       \* useRef<number>(0)
    animationFrameRef,  \* TRUE while a requested animation frame is pending
    endedEvents,        \* "ended" events still to come of nodes let go of
    playerEvent         \* the operations of the Player that ran last

playerVars == <<duration, currentTime, isPlaying, progress, pitch, sourceNodeRef,
                startTimeRef, pauseTimeRef, animationFrameRef, endedEvents,
                playerEvent>>

appVars == <<articles, audioContextRef, now, lastGenRequestRef, generationState,
             summaryText, audioBuffer, requests, event>>

\* The auto-update of the App (App.tsx 46-47 and 129-137).  Times are
\* milliseconds of the clock the timers run on.
VARIABLES
    autoGenerate,       \* useState(false)
    selectedVoice,      \* useState<TTSVoice>(TTSVoice.Kore)
    timer,              \* the timeout the auto-generate effect has pending
    burst               \* what happened since the queue last changed

autoVars == <<autoGenerate, selectedVoice, timer, burst>>

vars == <<appVars, playerVars, autoVars>>

NoError == ""

State(status) == [status |-> status, error |-> NoError]

\* `event` names the block of code that ran last: the operation, the request
\* it belongs to, how the awaited call settled, the error that was handed to
\* getFriendlyErrorMessage (0 when none was), and for an accepted generate
\* call the status it was made from.
NoEvent == [op |-> "none", req |-> 0, outcome |-> "none", error |-> 0, prev |-> "none"]

\* A source node: the buffer it plays, the offset it was started at, the
\* position its playback has reached, its detune, whether it has an onended
\* handler, and whether it is playing or has played to the end of the
\* buffer.
Null ==
    [buffer |-> 0, offset |-> 0, pos |-> 0, detune |-> 0, onended |-> FALSE,
     state |-> "null"]

\* `playerEvent` names the last two transport operations that took effect
\* (before, last: play, pause, stop, or ended for a natural completion),
\* the value the slider was last asked to take (value; 0 before any was),
\* the operation that had halted the node whose "ended" event was
\* dispatched, without a handler to run, since the last of them (dropped),
\* and whether pauseAudio was called since and found no source (ignored).
NoPlayerEvent ==
    [before |-> "none", last |-> "none", value |-> 0, dropped |-> "none",
     ignored |-> FALSE]

\* No timeout is pending.  A pending one has the time that remains of its
\* delay and the queue and the voice of the render whose handleGenerate its
\* callback calls.
NoTimer == [armed |-> FALSE, remaining |-> 0, articles |-> <<>>, voice |-> "none"]

\* `burst` tells, since the queue last changed: whether auto-update was on
\* at that change and ever since (auto), whether the voice was changed
\* (voice), the time that has passed while a timeout was pending (since) and
\* the calls the timeouts have made (calls).
NoBurst == [auto |-> FALSE, voice |-> FALSE, since |-> 0, calls |-> 0]

\* App.tsx 46-47: auto-update is off, the voice is Kore, no timeout exists.
NoAuto ==
    /\ autoGenerate = FALSE
    /\ selectedVoice = "Kore"
    /\ timer = NoTimer
    /\ burst = NoBurst

\* The values of useState and useRef at lines 12-22, before any effect ran.
PlayerState ==
    /\ currentTime = 0
    /\ isPlaying = FALSE
    /\ progress = 0
    /\ pitch = 0
    /\ sourceNodeRef = Null
    /\ startTimeRef = 0
    /\ pauseTimeRef = 0
    /\ animationFrameRef = FALSE
    /\ endedEvents = {}
    /\ playerEvent = NoPlayerEvent

\* App.tsx 318-326: no Player is rendered until a briefing is ready.
NoPlayer ==
    /\ duration = 0
    /\ PlayerState

Init ==
    /\ articles = <<>>
    /\ audioContextRef = "null"
    /\ now = 1
    /\ lastGenRequestRef = 0
    /\ generationState = State("idle")
    /\ summaryText = 0
    /\ audioBuffer = 0
    /\ requests = <<>>
    /\ event = NoEvent
    /\ NoPlayer
    /\ NoAuto

\* ------------------------------------------------------- queue management
\* React runs the mount effects before it dispatches any user event, so the
\* queue handlers run only once the AudioContext exists.
Mounted == audioContextRef = "open"

Remove(q, id) == SelectSeq(q, LAMBDA a : a # id)

InQueue(id) == \E i \in 1..Len(articles) : articles[i] = id

\* App, "Effect: Clear state when list becomes empty": it runs after the
\* render that follows a change of articles.length, and touches neither
\* lastGenRequestRef nor any pending request.  `emptied` only remembers, for
\* each request still pending, that the queue became empty after its issue.
ClearWhenEmpty(newArticles) ==
    IF Len(newArticles) = 0 /\ Len(articles) # 0
    THEN /\ audioBuffer' = 0
         /\ summaryText' = 0
         /\ generationState' = State("idle")
         /\ requests' = [r \in 1..Len(requests) |->
                           IF requests[r].pc = "done" THEN requests[r]
                           ELSE [requests[r] EXCEPT !.emptied = TRUE]]
    ELSE UNCHANGED <<audioBuffer, summaryText, generationState, requests>>

QueueEvent == [NoEvent EXCEPT !.op = "queue"]

\* App, first effect: the AudioContext is created on mount; the clearing
\* effect runs on mount too and finds the state it would set.
MountEffect ==
    /\ audioContextRef = "null"
    /\ audioContextRef' = "open"
    /\ event' = QueueEvent
    /\ UNCHANGED <<articles, now, lastGenRequestRef, generationState, summaryText,
                   audioBuffer, requests>>

handleAddArticle(id) ==
    /\ Mounted
    /\ ~InQueue(id)
    /\ articles' = Append(articles, id)
    /\ ClearWhenEmpty(articles')
    /\ event' = QueueEvent
    /\ UNCHANGED <<audioContextRef, now, lastGenRequestRef>>

handleRemoveArticle(id) ==
    /\ Mounted
    /\ InQueue(id)
    /\ articles' = Remove(articles, id)
    /\ ClearWhenEmpty(articles')
    /\ event' = QueueEvent
    /\ UNCHANGED <<audioContextRef, now, lastGenRequestRef>>

handleClearAll ==
    /\ Mounted
    /\ Len(articles) # 0
    /\ articles' = <<>>
    /\ ClearWhenEmpty(articles')
    /\ event' = QueueEvent
    /\ UNCHANGED <<audioContextRef, now, lastGenRequestRef>>

\* One millisecond of wall-clock time passes.  Date.now() returns `now`;
\* blocks of code that run within the same millisecond read the same value.
Tick ==
    /\ now < MaxTime
    /\ now' = now + 1
    /\ UNCHANGED <<articles, audioContextRef, lastGenRequestRef, generationState,
                   summaryText, audioBuffer, requests, event>>

\* --------------------------------------------------------- handleGenerate
GenEvent(op, r, outcome, error) ==
    [op |-> op, req |-> r, outcome |-> outcome, error |-> error,
     prev |-> IF outcome = "issued" THEN generationState.status ELSE "none"]

Finish(r) == [requests EXCEPT ![r].pc = "done", ![r].emptied = FALSE]

\* handleGenerate without the setAudioBuffer(null) of line 99.
handleGenerateKeepsAudio ==
    /\ Len(requests) < MaxRequests
    /\ IF Len(articles) = 0 \/ audioContextRef = "null"
       THEN /\ event' = GenEvent("generate", 0, "ignored", 0)
            /\ UNCHANGED <<lastGenRequestRef, summaryText, audioBuffer,
                           generationState, requests>>
       ELSE /\ lastGenRequestRef' = now
            /\ summaryText' = 0
            /\ UNCHANGED audioBuffer
            /\ generationState' = State("summarizing")
            /\ requests' = Append(requests,
                  [currentRequestTime |-> now, pc |-> "summarize", emptied |-> FALSE])
            /\ event' = GenEvent("generate", Len(requests) + 1, "issued", 0)
    /\ UNCHANGED <<articles, audioContextRef, now>>

\* handleGenerate with the marker of lines 92-93 written before the guards
\* of lines 90-91.
handleGenerateMarksFirst ==
    /\ Len(requests) < MaxRequests
    /\ lastGenRequestRef' = now
    /\ IF Len(articles) = 0 \/ audioContextRef = "null"
       THEN /\ event' = GenEvent("generate", 0, "ignored", 0)
            /\ UNCHANGED <<summaryText, audioBuffer, generationState, requests>>
       ELSE /\ summaryText' = 0
            /\ audioBuffer' = 0
            /\ generationState' = State("summarizing")
            /\ requests' = Append(requests,
                  [currentRequestTime |-> now, pc |-> "summarize", emptied |-> FALSE])
            /\ event' = GenEvent("generate", Len(requests) + 1, "issued", 0)
    /\ UNCHANGED <<articles, audioContextRef, now>>

\* lines 89-100: the guards, the issue marker and the reset, up to the
\* first await.  A call that fails a guard returns at once.  The marker is
\* the reading of the wall clock and nothing else: the call is made by the
\* button, by the auto-update timer or by any other caller, in any status.
handleGenerate ==
    /\ Len(requests) < MaxRequests
    /\ IF Len(articles) = 0 \/ audioContextRef = "null"
       THEN /\ event' = GenEvent("generate", 0, "ignored", 0)
            /\ UNCHANGED <<lastGenRequestRef, summaryText, audioBuffer,
                           generationState, requests>>
       ELSE /\ lastGenRequestRef' = now
            /\ summaryText' = 0
            /\ audioBuffer' = 0
            /\ generationState' = State("summarizing")
            /\ requests' = Append(requests,
                  [currentRequestTime |-> now, pc |-> "summarize", emptied |-> FALSE])
            /\ event' = GenEvent("generate", Len(requests) + 1, "issued", 0)
    /\ UNCHANGED <<articles, audioContextRef, now>>

\* Catch without the setGenerationState of lines 122-125.
CatchKeepsState(r, op, outcome, error) ==
    /\ requests' = Finish(r)
    /\ event' = GenEvent(op, r, outcome, IF lastGenRequestRef # requests[r].currentRequestTime
                                        THEN 0 ELSE error)
    /\ UNCHANGED <<generationState, summaryText, audioBuffer>>

\* lines 118-126: the catch block of request r for the rejection `error`.
Catch(r, op, outcome, error) ==
    /\ requests' = Finish(r)
    /\ IF lastGenRequestRef # requests[r].currentRequestTime
       THEN /\ event' = GenEvent(op, r, outcome, 0)
            /\ UNCHANGED generationState
       ELSE /\ event' = GenEvent(op, r, outcome, error)
            /\ generationState' = [status |-> "error", error |-> FriendlyMessage[error]]
    /\ UNCHANGED <<summaryText, audioBuffer>>

\* lines 105-111: summarizeArticles resolved (its text, or its fallback
\* sentence, is never empty) and request r resumes.
SummarizeResolved(r) ==
    /\ requests[r].pc = "summarize"
    /\ event' = GenEvent("summarize", r, "resolved", 0)
    /\ IF lastGenRequestRef # requests[r].currentRequestTime
       THEN /\ requests' = Finish(r)
            /\ UNCHANGED <<summaryText, generationState>>
       ELSE /\ summaryText' = r
            /\ generationState' = State("generating_audio")
            /\ requests' = [requests EXCEPT ![r].pc = "speech"]
    /\ UNCHANGED <<articles, audioContextRef, now, lastGenRequestRef, audioBuffer>>

\* summarizeArticles rejected: getAIClient threw, or the remote call failed.
SummarizeRejected(r, error) ==
    /\ requests[r].pc = "summarize"
    /\ Catch(r, "summarize", "rejected", error)
    /\ UNCHANGED <<articles, audioContextRef, now, lastGenRequestRef>>

\* lines 112-116 with geminiService.ts 97-108: the response carries a
\* payload, generateSpeech decodes it and request r resumes with the buffer.
SpeechResolved(r) ==
    /\ requests[r].pc = "speech"
    /\ requests' = Finish(r)
    /\ event' = GenEvent("speech", r, "resolved", 0)
    /\ IF lastGenRequestRef # requests[r].currentRequestTime
       THEN UNCHANGED <<audioBuffer, generationState>>
       ELSE /\ audioBuffer' = r
            /\ generationState' = State("ready")
    /\ UNCHANGED <<articles, audioContextRef, now, lastGenRequestRef, summaryText>>

\* geminiService.ts 97-101: the response carries no payload data and
\* generateSpeech throws its own error.
SpeechNoData(r) ==
    /\ requests[r].pc = "speech"
    /\ Catch(r, "speech", "nodata", NoAudioError)
    /\ UNCHANGED <<articles, audioContextRef, now, lastGenRequestRef>>

\* generateSpeech rejected: getAIClient threw, the remote call failed, or
\* the payload could not be decoded.
SpeechRejected(r, error) ==
    /\ requests[r].pc = "speech"
    /\ Catch(r, "speech", "rejected", error)
    /\ UNCHANGED <<articles, audioContextRef, now, lastGenRequestRef>>

\* The steps of App.tsx.  The Player takes its steps in PlayerSpec, below.
Next ==
    \/ MountEffect /\ UNCHANGED <<playerVars, autoVars>>
    \/ \E id \in ArticleIds : handleAddArticle(id) /\ UNCHANGED <<playerVars, autoVars>>
    \/ \E id \in ArticleIds : handleRemoveArticle(id) /\ UNCHANGED <<playerVars, autoVars>>
    \/ handleClearAll /\ UNCHANGED <<playerVars, autoVars>>
    \/ Tick /\ UNCHANGED <<playerVars, autoVars>>
    \/ handleGenerate /\ UNCHANGED <<playerVars, autoVars>>
    \/ \E r \in 1..Len(requests) : SummarizeResolved(r) /\ UNCHANGED <<playerVars, autoVars>>
    \/ \E r \in 1..Len(requests), e \in Errors : SummarizeRejected(r, e) /\ UNCHANGED <<playerVars, autoVars>>
    \/ \E r \in 1..Len(requests) : SpeechResolved(r) /\ UNCHANGED <<playerVars, autoVars>>
    \/ \E r \in 1..Len(requests) : SpeechNoData(r) /\ UNCHANGED <<playerVars, autoVars>>
    \/ \E r \in 1..Len(requests), e \in Errors : SpeechRejected(r, e) /\ UNCHANGED <<playerVars, autoVars>>

Spec == Init /\ [][Next]_vars

\* lines 105-126: the continuation of some pending request, after the call
\* it awaits has settled.
Settle ==
    \/ \E r \in 1..Len(requests) : SummarizeResolved(r) /\ UNCHANGED <<playerVars, autoVars>>
    \/ \E r \in 1..Len(requests), e \in Errors : SummarizeRejected(r, e) /\ UNCHANGED <<playerVars, autoVars>>
    \/ \E r \in 1..Len(requests) : SpeechResolved(r) /\ UNCHANGED <<playerVars, autoVars>>
    \/ \E r \in 1..Len(requests) : SpeechNoData(r) /\ UNCHANGED <<playerVars, autoVars>>
    \/ \E r \in 1..Len(requests), e \in Errors : SpeechRejected(r, e) /\ UNCHANGED <<playerVars, autoVars>>

\* The program when every remote call completes or fails in the end: the
\* promise an await of lines 105 and 108 waits for settles, and the event
\* loop then runs the continuation.  No button has to be clicked.
FairSpec == Spec /\ WF_vars(Settle)

\* ================================================================ Player
\* The Player of one ready briefing (Player.tsx).  One action is one task of
\* the event loop: a click or slider handler, an animation frame callback or
\* the dispatch of a source node's "ended" event, each together with the
\* render and the effects its state updates trigger.
MinPitch  == -400     \* <input type="range" min="-400">
MaxPitch  == 400      \* <input type="range" max="400">
PitchStep == 10       \* <input type="range" step="10">

\* Values a change of the slider is asked to take: unity, a value between
\* two steps, and values beyond either end of the range.
PitchInputs == {-1200, 0, 395, 1200}

Min(a, b) == IF a < b THEN a ELSE b
Max(a, b) == IF a > b THEN a ELSE b

\* Positions inside the buffer are counted in quarters of a second.
Quarters(t) == 4 * t

\* Quarters of the buffer a source plays in one second of the clock: the
\* playback rate 2^(detune/1200) to the nearest quarter, which is 3 at -400
\* cents, 4 at unity and 5 at +400 cents.
Rate(detune) == 4 + (detune + 200) \div 400

\* A range input that has no max.
RangeValueWithoutMax(v) ==
    LET c == Max(MinPitch, v)
    IN  MinPitch + ((c - MinPitch + PitchStep \div 2) \div PitchStep) * PitchStep

\* lines 221-229: e.target.value of the range input.  The control keeps its
\* value between min and max and on a multiple of step counted from min
\* (the nearest one, the higher of two equally near).
RangeValue(v) ==
    LET c == Max(MinPitch, Min(MaxPitch, v))
    IN  MinPitch + ((c - MinPitch + PitchStep \div 2) \div PitchStep) * PitchStep

\* The Player is mounted for the briefing of request 1 (App.tsx 318-326),
\* its mount effects have run and no handler has.
PlayerInit ==
    /\ articles = <<1>>
    /\ audioContextRef = "open"
    /\ now = 1
    /\ lastGenRequestRef = 1
    /\ generationState = State("ready")
    /\ summaryText = 1
    /\ audioBuffer = 1
    /\ requests = <<[currentRequestTime |-> 1, pc |-> "done", emptied |-> FALSE]>>
    /\ event = [op |-> "speech", req |-> 1, outcome |-> "resolved", error |-> 0,
                prev |-> "none"]
    /\ duration \in 1..MaxDuration
    /\ PlayerState
    /\ NoAuto

TransportEvent(op) ==
    [playerEvent EXCEPT !.before = playerEvent.last, !.last = op,
                        !.dropped = "none", !.ignored = FALSE]

\* source.start(0, offset) on a new node that carries the handler of lines
\* 87-96: playback begins at offset, or at the end of the buffer when offset
\* lies beyond it, and then the node has finished at once.
NewSource(offset) ==
    LET pos == Min(Quarters(offset), Quarters(duration))
    IN  [buffer |-> audioBuffer, offset |-> offset, pos |-> pos,
         detune |-> pitch, onended |-> TRUE,
         state |-> IF pos = Quarters(duration) THEN "finished" ELSE "playing"]

\* One second of playback of a node.  A node that reaches the end of the
\* buffer has finished, and its "ended" event waits to be dispatched.
Played(source) ==
    IF source.state # "playing" THEN source
    ELSE LET pos == Min(source.pos + Rate(source.detune), Quarters(duration))
         IN  [source EXCEPT !.pos = pos,
                 !.state = IF pos = Quarters(duration) THEN "finished" ELSE "playing"]

\* The "ended" event of a node the Player let go of with onended = null and
\* stop() (lines 103-105 and 115-117): stop() ends a playing node, and the
\* event of a node that had finished already is still to be dispatched.
EndedEvent(by) == [onended |-> FALSE, stoppedBy |-> by]

\* lines 62-68: the effect of [isPlaying, updateProgress] after a render in
\* which isPlaying changed: it requests a frame or cancels the pending one.
FrameEffect(playing) ==
    animationFrameRef' = IF playing # isPlaying THEN playing ELSE animationFrameRef

\* One second of the AudioContext clock passes.
AdvanceClock ==
    /\ currentTime < MaxClock
    /\ currentTime' = currentTime + 1
    /\ sourceNodeRef' = Played(sourceNodeRef)
    /\ UNCHANGED <<duration, isPlaying, progress, pitch, startTimeRef, pauseTimeRef,
                   animationFrameRef, endedEvents, playerEvent>>

\* lines 43-60: the animation frame callback.  The callback was requested
\* by a render in which isPlaying was true, and every pending request is
\* cancelled when isPlaying turns false, so that its isPlaying is true.
updateProgress ==
    /\ animationFrameRef
    /\ LET elapsed == currentTime - startTimeRef + pauseTimeRef
       IN  /\ progress' = Min(100 * elapsed, 100 * duration)
           /\ animationFrameRef' = (elapsed < duration /\ isPlaying)
    /\ UNCHANGED <<duration, currentTime, isPlaying, pitch, sourceNodeRef,
                   startTimeRef, pauseTimeRef, endedEvents, playerEvent>>

\* lines 70-99, called with pauseTimeRef.current = offset.  The ref is
\* overwritten: a node it referred to is neither stopped nor stripped of its
\* handler, and its "ended" event comes when it has played to its end.
playAudio(offset) ==
    /\ pauseTimeRef' = offset
    /\ sourceNodeRef' = NewSource(offset)
    /\ endedEvents' = IF sourceNodeRef # Null
                      THEN endedEvents \cup
                             {[onended |-> sourceNodeRef.onended, stoppedBy |-> "none"]}
                      ELSE endedEvents
    /\ startTimeRef' = currentTime
    /\ isPlaying' = TRUE
    /\ FrameEffect(TRUE)
    /\ playerEvent' = TransportEvent("play")
    /\ UNCHANGED <<duration, currentTime, progress, pitch>>

\* pauseAudio that accumulates the clock instead of the elapsed time.
pauseAudioAddsClock ==
    IF sourceNodeRef # Null
    THEN /\ endedEvents' = endedEvents \cup {EndedEvent("pause")}
         /\ sourceNodeRef' = Null
         /\ pauseTimeRef' = pauseTimeRef + currentTime
         /\ isPlaying' = FALSE
         /\ FrameEffect(FALSE)
         /\ playerEvent' = TransportEvent("pause")
         /\ UNCHANGED <<duration, currentTime, progress, pitch, startTimeRef>>
    ELSE /\ playerEvent' = [playerEvent EXCEPT !.ignored = TRUE]
         /\ UNCHANGED <<duration, currentTime, isPlaying, progress, pitch,
                        sourceNodeRef, startTimeRef, pauseTimeRef,
                        animationFrameRef, endedEvents>>

\* pauseAudio without the onended = null of line 104.
pauseAudioKeepsHandler ==
    IF sourceNodeRef # Null
    THEN /\ endedEvents' = endedEvents \cup {[EndedEvent("pause") EXCEPT !.onended = TRUE]}
         /\ sourceNodeRef' = Null
         /\ pauseTimeRef' = pauseTimeRef + (currentTime - startTimeRef)
         /\ isPlaying' = FALSE
         /\ FrameEffect(FALSE)
         /\ playerEvent' = TransportEvent("pause")
         /\ UNCHANGED <<duration, currentTime, progress, pitch, startTimeRef>>
    ELSE /\ playerEvent' = [playerEvent EXCEPT !.ignored = TRUE]
         /\ UNCHANGED <<duration, currentTime, isPlaying, progress, pitch,
                        sourceNodeRef, startTimeRef, pauseTimeRef,
                        animationFrameRef, endedEvents>>

\* pauseAudio without the test of sourceNodeRef.current of line 102.
pauseAudioUnguarded ==
    /\ endedEvents' = endedEvents \cup {EndedEvent("pause")}
    /\ sourceNodeRef' = Null
    /\ pauseTimeRef' = pauseTimeRef + (currentTime - startTimeRef)
    /\ isPlaying' = FALSE
    /\ FrameEffect(FALSE)
    /\ playerEvent' = TransportEvent("pause")
    /\ UNCHANGED <<duration, currentTime, progress, pitch, startTimeRef>>

\* lines 101-111.  The play/pause button calls the function when the
\* render it belongs to has isPlaying true.  The state update of the
\* onended handler is rendered after the handler has run, and a click in
\* between is a call that finds no source.
pauseAudio ==
    IF sourceNodeRef # Null
    THEN /\ endedEvents' = endedEvents \cup {EndedEvent("pause")}
         /\ sourceNodeRef' = Null
         /\ pauseTimeRef' = pauseTimeRef + (currentTime - startTimeRef)
         /\ isPlaying' = FALSE
         /\ FrameEffect(FALSE)
         /\ playerEvent' = TransportEvent("pause")
         /\ UNCHANGED <<duration, currentTime, progress, pitch, startTimeRef>>
    ELSE /\ playerEvent' = [playerEvent EXCEPT !.ignored = TRUE]
         /\ UNCHANGED <<duration, currentTime, isPlaying, progress, pitch,
                        sourceNodeRef, startTimeRef, pauseTimeRef,
                        animationFrameRef, endedEvents>>

\* togglePlay without the test of isPlaying of line 126.
togglePlayAlwaysPlays ==
    playAudio(IF progress >= 100 * duration THEN 0 ELSE pauseTimeRef)

\* lines 125-135: the play/pause button.
togglePlay ==
    IF isPlaying
    THEN pauseAudio
    ELSE playAudio(IF progress >= 100 * duration THEN 0 ELSE pauseTimeRef)

\* stopAudio without the reset of pauseTimeRef of line 120.
stopAudioKeepsOffset ==
    /\ endedEvents' = IF sourceNodeRef # Null
                      THEN endedEvents \cup {EndedEvent("stop")}
                      ELSE endedEvents
    /\ sourceNodeRef' = Null
    /\ isPlaying' = FALSE
    /\ UNCHANGED pauseTimeRef
    /\ progress' = 0
    /\ animationFrameRef' = FALSE
    /\ playerEvent' = TransportEvent("stop")
    /\ UNCHANGED <<duration, currentTime, pitch, startTimeRef>>

\* stopAudio without the setProgress(0) of line 121.
stopAudioKeepsProgress ==
    /\ endedEvents' = IF sourceNodeRef # Null
                      THEN endedEvents \cup {EndedEvent("stop")}
                      ELSE endedEvents
    /\ sourceNodeRef' = Null
    /\ isPlaying' = FALSE
    /\ pauseTimeRef' = 0
    /\ UNCHANGED progress
    /\ animationFrameRef' = FALSE
    /\ playerEvent' = TransportEvent("stop")
    /\ UNCHANGED <<duration, currentTime, pitch, startTimeRef>>

\* lines 113-123: the stop button.
stopAudio ==
    /\ endedEvents' = IF sourceNodeRef # Null
                      THEN endedEvents \cup {EndedEvent("stop")}
                      ELSE endedEvents
    /\ sourceNodeRef' = Null
    /\ isPlaying' = FALSE
    /\ pauseTimeRef' = 0
    /\ progress' = 0
    /\ animationFrameRef' = FALSE
    /\ playerEvent' = TransportEvent("stop")
    /\ UNCHANGED <<duration, currentTime, pitch, startTimeRef>>

\* The onended handler without the reset of pauseTimeRef of line 92.
onendedKeepsOffset ==
    IF sourceNodeRef # Null
    THEN /\ isPlaying' = FALSE
         /\ UNCHANGED pauseTimeRef
         /\ progress' = 100 * duration
         /\ sourceNodeRef' = Null
         /\ FrameEffect(FALSE)
         /\ playerEvent' = TransportEvent("ended")
    ELSE UNCHANGED <<isPlaying, pauseTimeRef, progress, sourceNodeRef,
                     animationFrameRef, playerEvent>>

\* lines 87-96: the body of the onended handler.
onended ==
    IF sourceNodeRef # Null
    THEN /\ isPlaying' = FALSE
         /\ pauseTimeRef' = 0
         /\ progress' = 100 * duration
         /\ sourceNodeRef' = Null
         /\ FrameEffect(FALSE)
         /\ playerEvent' = TransportEvent("ended")
    ELSE UNCHANGED <<isPlaying, pauseTimeRef, progress, sourceNodeRef,
                     animationFrameRef, playerEvent>>

\* The "ended" event of the node sourceNodeRef refers to is dispatched: the
\* node has played to the end of the buffer and still has its handler.
SourceEnded ==
    /\ sourceNodeRef.state = "finished"
    /\ IF sourceNodeRef.onended
       THEN onended
       ELSE UNCHANGED <<isPlaying, pauseTimeRef, progress, sourceNodeRef,
                        animationFrameRef, playerEvent>>
    /\ UNCHANGED <<duration, currentTime, pitch, startTimeRef, endedEvents>>

\* The "ended" event e of a node the Player let go of is dispatched.
HaltedEnded(e) ==
    /\ e \in endedEvents
    /\ endedEvents' = endedEvents \ {e}
    /\ IF e.onended
       THEN onended
       ELSE /\ playerEvent' = [playerEvent EXCEPT !.dropped = e.stoppedBy]
            /\ UNCHANGED <<isPlaying, pauseTimeRef, progress, sourceNodeRef,
                           animationFrameRef>>
    /\ UNCHANGED <<duration, currentTime, pitch, startTimeRef>>

\* onChange without the effect of [pitch] of lines 36-41.
onChangeStoresOnly(v) ==
    /\ pitch' = RangeValue(v)
    /\ UNCHANGED sourceNodeRef
    /\ playerEvent' = [playerEvent EXCEPT !.value = v]
    /\ UNCHANGED <<duration, currentTime, isPlaying, progress, startTimeRef,
                   pauseTimeRef, animationFrameRef, endedEvents>>

\* lines 221-229 and 36-41: the slider is moved towards v; the effect of
\* [pitch] hands the new pitch to the source sourceNodeRef refers to.
onChange(v) ==
    /\ pitch' = RangeValue(v)
    /\ sourceNodeRef' = IF sourceNodeRef # Null
                        THEN [sourceNodeRef EXCEPT !.detune = pitch']
                        ELSE sourceNodeRef
    /\ playerEvent' = [playerEvent EXCEPT !.value = v]
    /\ UNCHANGED <<duration, currentTime, isPlaying, progress, startTimeRef,
                   pauseTimeRef, animationFrameRef, endedEvents>>

PlayerNext ==
    \/ togglePlay /\ UNCHANGED <<appVars, autoVars>>
    \/ pauseAudio /\ UNCHANGED <<appVars, autoVars>>
    \/ stopAudio /\ UNCHANGED <<appVars, autoVars>>
    \/ \E v \in PitchInputs : onChange(v) /\ UNCHANGED <<appVars, autoVars>>
    \/ updateProgress /\ UNCHANGED <<appVars, autoVars>>
    \/ AdvanceClock /\ UNCHANGED <<appVars, autoVars>>
    \/ SourceEnded /\ UNCHANGED <<appVars, autoVars>>
    \/ \E e \in endedEvents : HaltedEnded(e) /\ UNCHANGED <<appVars, autoVars>>

PlayerSpec == PlayerInit /\ [][PlayerNext]_vars

\* ======================================================= App with Player
\* The App together with the Player it renders.  A step of the App ends
\* with its render, which mounts the Player, leaves it mounted or unmounts
\* it; a step of the Player needs a mounted Player.
MaxMountedDuration == 1    \* longest audio buffer of a generated briefing
MaxMountedClock    == 1    \* last second the clock reaches in such a run

\* App.tsx 318-326: the condition under which the Player is rendered.
PlayerRendered ==
    /\ generationState.status = "ready"
    /\ audioBuffer # 0
    /\ audioContextRef # "null"

PlayerMounted == duration # 0

\* Player.tsx 11-34: the first render of the Player and its mount effects.
\* The clock of the AudioContext and the events of nodes that were halted
\* earlier are not the Player's.
Mount ==
    /\ duration' \in 1..MaxMountedDuration
    /\ isPlaying' = FALSE
    /\ progress' = 0
    /\ pitch' = 0
    /\ sourceNodeRef' = Null
    /\ startTimeRef' = 0
    /\ pauseTimeRef' = 0
    /\ animationFrameRef' = FALSE
    /\ playerEvent' = NoPlayerEvent
    /\ UNCHANGED <<currentTime, endedEvents>>

\* Player.tsx 29-32 and 66: the Player is unmounted.  The cleanup of the
\* mount effect calls stopAudio (113-123), which detaches the handler of the
\* referenced node and stops it, the cleanup of the frame effect cancels
\* the pending frame, and the state and the refs of the Player are gone.
Unmount ==
    /\ endedEvents' = IF sourceNodeRef # Null
                      THEN endedEvents \cup {EndedEvent("unmount")}
                      ELSE endedEvents
    /\ duration' = 0
    /\ isPlaying' = FALSE
    /\ progress' = 0
    /\ pitch' = 0
    /\ sourceNodeRef' = Null
    /\ startTimeRef' = 0
    /\ pauseTimeRef' = 0
    /\ animationFrameRef' = FALSE
    /\ playerEvent' = NoPlayerEvent
    /\ UNCHANGED currentTime

\* A render of a mounted Player that stays mounted.  The props are read by
\* the render and by the handlers it creates: a new audioBuffer changes the
\* duration, and no effect of the Player depends on it, so that the node
\* sourceNodeRef refers to plays on.
Rerender ==
    /\ IF audioBuffer' # audioBuffer
       THEN duration' \in 1..MaxMountedDuration
       ELSE UNCHANGED duration
    /\ UNCHANGED <<currentTime, isPlaying, progress, pitch, sourceNodeRef,
                   startTimeRef, pauseTimeRef, animationFrameRef, endedEvents,
                   playerEvent>>

\* App.tsx 318-326: the render that ends a step of the App.
Render ==
    IF PlayerRendered'
    THEN IF PlayerMounted THEN Rerender ELSE Mount
    ELSE IF PlayerMounted THEN Unmount ELSE UNCHANGED playerVars

\* A step of the Player, or of the clock and the nodes it plays through.
PlayerSteps ==
    \/ PlayerMounted /\ togglePlay /\ UNCHANGED <<appVars, autoVars>>
    \/ PlayerMounted /\ pauseAudio /\ UNCHANGED <<appVars, autoVars>>
    \/ PlayerMounted /\ stopAudio /\ UNCHANGED <<appVars, autoVars>>
    \/ \E v \in PitchInputs : PlayerMounted /\ onChange(v) /\ UNCHANGED <<appVars, autoVars>>
    \/ PlayerMounted /\ updateProgress /\ UNCHANGED <<appVars, autoVars>>
    \/ PlayerMounted /\ currentTime < MaxMountedClock /\ AdvanceClock /\ UNCHANGED <<appVars, autoVars>>
    \/ PlayerMounted /\ SourceEnded /\ UNCHANGED <<appVars, autoVars>>
    \/ \E e \in endedEvents : HaltedEnded(e) /\ UNCHANGED <<appVars, autoVars>>

BriefingNext ==
    \/ MountEffect /\ Render /\ UNCHANGED autoVars
    \/ \E id \in ArticleIds : handleAddArticle(id) /\ Render /\ UNCHANGED autoVars
    \/ \E id \in ArticleIds : handleRemoveArticle(id) /\ Render /\ UNCHANGED autoVars
    \/ handleClearAll /\ Render /\ UNCHANGED autoVars
    \/ Tick /\ Render /\ UNCHANGED autoVars
    \/ handleGenerate /\ Render /\ UNCHANGED autoVars
    \/ \E r \in 1..Len(requests) : SummarizeResolved(r) /\ Render /\ UNCHANGED autoVars
    \/ \E r \in 1..Len(requests), e \in Errors : SummarizeRejected(r, e) /\ Render /\ UNCHANGED autoVars
    \/ \E r \in 1..Len(requests) : SpeechResolved(r) /\ Render /\ UNCHANGED autoVars
    \/ \E r \in 1..Len(requests) : SpeechNoData(r) /\ Render /\ UNCHANGED autoVars
    \/ \E r \in 1..Len(requests), e \in Errors : SpeechRejected(r, e) /\ Render /\ UNCHANGED autoVars
    \/ PlayerSteps

BriefingSpec == Init /\ [][BriefingNext]_vars

\* ============================================================ Auto-update
\* The App with its auto-update (App.tsx 129-137).  A step of the App ends
\* with its render and with the effects whose dependencies changed; the
\* callback of a timeout runs when its delay has passed, before anything
\* later does.  Date.now() reads the wall clock, which may be set at any
\* time, and so `now` is not tied to the time the timers run on.
DebounceMs == 1500        \* setTimeout(..., 1500)

MaxBurstArticles == 2     \* distinct article ids queued in such a run
MaxSince         == 2000  \* longest time that is counted after a queue change

BurstArticleIds == 1..MaxBurstArticles

\* The voices the selector is set to: the initial one and another one.
Voices == {"Kore", "Puck"}

\* Amounts of time that pass between two events.
Delays == {500, 1500}

\* The effect without the clearTimeout of its cleanup (line 135): the
\* timeout of the run before stays pending.
AutoGenerateEffectKeepsTimer(newArticles, newAuto, newVoice) ==
    timer' = IF timer.armed
             THEN timer
             ELSE IF newAuto /\ Len(newArticles) > 0
             THEN [armed |-> TRUE, remaining |-> DebounceMs,
                   articles |-> newArticles, voice |-> newVoice]
             ELSE NoTimer

\* lines 129-137: the effect of [articles, autoGenerate, handleGenerate]
\* after a render in which one of them changed (handleGenerate changes with
\* articles and selectedVoice, line 127).  Its cleanup clears the timeout
\* of the run before, and the new run sets one when auto-update is on and
\* the queue is not empty.
AutoGenerateEffect(newArticles, newAuto, newVoice) ==
    timer' = IF newAuto /\ Len(newArticles) > 0
             THEN [armed |-> TRUE, remaining |-> DebounceMs,
                   articles |-> newArticles, voice |-> newVoice]
             ELSE NoTimer

\* A change of the queue: the effect runs for the new queue.
QueueChanged ==
    /\ AutoGenerateEffect(articles', autoGenerate, selectedVoice)
    /\ burst' = [auto |-> autoGenerate, voice |-> FALSE, since |-> 0, calls |-> 0]
    /\ UNCHANGED <<autoGenerate, selectedVoice>>

\* line 170: the Auto-Update checkbox is switched.
setAutoGenerate(checked) ==
    /\ Mounted
    /\ checked # autoGenerate
    /\ autoGenerate' = checked
    /\ AutoGenerateEffect(articles, checked, selectedVoice)
    /\ burst' = [burst EXCEPT !.auto = burst.auto /\ checked]
    /\ UNCHANGED selectedVoice

\* line 184: another voice is selected.
setSelectedVoice(voice) ==
    /\ Mounted
    /\ voice # selectedVoice
    /\ selectedVoice' = voice
    /\ AutoGenerateEffect(articles, autoGenerate, voice)
    /\ burst' = [burst EXCEPT !.voice = TRUE]
    /\ UNCHANGED autoGenerate

\* Time passes while a timeout is pending, up to the end of its delay.
Wait(d) ==
    /\ timer.armed
    /\ d <= timer.remaining
    /\ burst.since + d <= MaxSince
    /\ timer' = [timer EXCEPT !.remaining = timer.remaining - d]
    /\ burst' = [burst EXCEPT !.since = burst.since + d]
    /\ UNCHANGED <<autoGenerate, selectedVoice>>

\* lines 131-133: the callback of the timeout calls the handleGenerate of
\* the render the effect ran in, which reads the queue and the voice of
\* that render.  The effect runs again whenever one of them changes, so
\* that they are the current ones (timer.articles and timer.voice).
TimerFires ==
    /\ timer.armed
    /\ timer.remaining = 0
    /\ handleGenerate
    /\ timer' = NoTimer
    /\ burst' = [burst EXCEPT !.calls = burst.calls + 1]
    /\ UNCHANGED <<autoGenerate, selectedVoice>>

\* lines 259-264: the Generate button, which is rendered for a queue that
\* is not empty and disabled while auto-update is on or a request runs.
GenerateButton ==
    /\ Len(articles) > 0
    /\ ~autoGenerate
    /\ generationState.status \notin {"summarizing", "generating_audio"}
    /\ handleGenerate

\* The App up to the issue of its requests.  What a request does once the
\* call it awaits has settled is in Spec: it reads and writes neither the
\* queue, the checkbox, the voice nor the timeout.
DebounceNext ==
    \/ MountEffect /\ UNCHANGED <<playerVars, autoVars>>
    \/ \E id \in BurstArticleIds : handleAddArticle(id) /\ QueueChanged /\ UNCHANGED playerVars
    \/ \E id \in BurstArticleIds : handleRemoveArticle(id) /\ QueueChanged /\ UNCHANGED playerVars
    \/ handleClearAll /\ QueueChanged /\ UNCHANGED playerVars
    \/ \E b \in BOOLEAN : setAutoGenerate(b) /\ UNCHANGED <<appVars, playerVars>>
    \/ \E v \in Voices : setSelectedVoice(v) /\ UNCHANGED <<appVars, playerVars>>
    \/ \E d \in Delays : Wait(d) /\ UNCHANGED <<appVars, playerVars>>
    \/ TimerFires /\ UNCHANGED playerVars
    \/ GenerateButton /\ UNCHANGED <<playerVars, autoVars>>
    \/ Tick /\ UNCHANGED <<playerVars, autoVars>>

DebounceSpec == Init /\ [][DebounceNext]_vars

\* ================================================================ claims
Statuses == {"idle", "summarizing", "generating_audio", "ready", "error"}

Published == <<summaryText, audioBuffer, generationState>>

\* Request r was pending and this step is the continuation that resumes it.
Resumed(r) == requests[r].pc # "done" /\ requests'[r].pc # requests[r].pc

\* A later handleGenerate call has been accepted since request r was issued.
Superseded(r) == r < Len(requests)

\* C1: whatever the order in which the remote calls of overlapping generate
\* calls settle, a continuation of a call that is not the last-issued one
\* writes neither the published summary, nor the published audio buffer,
\* nor the generation state.
C1_OnlyLastIssuedPublishes ==
    [][\A r \in 1..Len(requests) :
          (Resumed(r) /\ Superseded(r)) => UNCHANGED Published]_vars

\* C2: emptying the queue resets the state to idle, and a request that was
\* pending when the queue became empty is stale from then on: when it
\* resumes, after success or failure, it publishes nothing.
C2_EmptiedRequestIsDiscarded ==
    [][/\ (Len(articles) # 0 /\ Len(articles') = 0) => generationState' = State("idle")
       /\ \A r \in 1..Len(requests) :
             (Resumed(r) /\ requests[r].emptied) => UNCHANGED Published]_vars

\* C3: the issue markers strictly increase in issue order, so no two
\* pending requests both carry the marker the staleness check accepts.
C3_MarkersStrictlyIncrease ==
    /\ \A i, j \in 1..Len(requests) :
          i < j => requests[i].currentRequestTime < requests[j].currentRequestTime
    /\ \A i, j \in 1..Len(requests) :
          (/\ i # j
           /\ requests[i].pc # "done"
           /\ requests[j].pc # "done"
           /\ requests[i].currentRequestTime = lastGenRequestRef)
          => requests[j].currentRequestTime # lastGenRequestRef

\* The edges of the generation state machine.
StatusEdges ==
    {<<s, "summarizing">> : s \in Statuses}
    \cup {<<s, "idle">> : s \in Statuses}
    \cup {<<"summarizing", "generating_audio">>, <<"generating_audio", "ready">>,
          <<"summarizing", "error">>, <<"generating_audio", "error">>}

\* C4: the generation status changes only along the edges of the state
\* machine: into summarizing by an accepted generate call (admitted here
\* from every status, the listed idle, ready and error included), from
\* summarizing to generating_audio, from generating_audio to ready, from
\* summarizing or generating_audio to error, and into idle when the queue
\* becomes empty; idle is left only for summarizing.
C4_StatusFollowsStateMachine ==
    [][generationState'.status # generationState.status =>
          /\ <<generationState.status, generationState'.status>> \in StatusEdges
          /\ generationState'.status = "summarizing" => Len(requests') = Len(requests) + 1
          /\ generationState'.status = "idle" => Len(articles') = 0]_vars

\* C5: a request that resumes after its summarization or its synthesis
\* succeeded, while a newer request has been issued, ends there: it leaves
\* the generation state, the summary and the audio buffer as they were and
\* does not go on to speech synthesis.
C5_StaleSuccessIsDropped ==
    [][\A r \in 1..Len(requests) :
          (Resumed(r) /\ Superseded(r) /\ event'.outcome = "resolved")
          => (UNCHANGED Published /\ requests'[r].pc = "done")]_vars

\* C6: a failure of summarization or synthesis of a request that a newer
\* one has superseded leaves the generation state, and with it the error
\* message, as it was.
C6_StaleFailureIsNotSurfaced ==
    [][\A r \in 1..Len(requests) :
          (Resumed(r) /\ Superseded(r) /\ event'.outcome \in {"rejected", "nodata"})
          => UNCHANGED generationState]_vars

\* C7: a failure of the last-issued request puts the generation state in
\* error, and whenever the status is error no audio buffer is published.
C7_ErrorPublishesNoAudio ==
    /\ (event.outcome \in {"rejected", "nodata"} /\ event.req = Len(requests))
          => generationState.status = "error"
    /\ generationState.status = "error" => audioBuffer = 0

NoAudioDataMessage == "Audio generation failed to return data. Please try again."

\* C8: when the synthesis response of the last-issued request carries no
\* payload data, the generation state is error with the message of the
\* "no audio data" category: not ready, not the generic sentence, not the
\* raw message, not the message of another category.

C8_NoPayloadIsNoAudioDataError ==
    (event.op = "speech" /\ event.outcome = "nodata" /\ event.req = Len(requests))
    => generationState = [status |-> "error", error |-> NoAudioDataMessage]

C8_Witness ==
    /\ event.op = "speech" /\ event.outcome = "nodata" /\ event.req = Len(requests)
    /\ generationState.status = "error"
    /\ Len(articles) # 0

\* What the error taxonomy prescribes for each rejection value, written
\* out by category: configuration, empty payload, quota, safety, network,
\* unavailability, quota (it precedes network), unclassified, unclassified
\* without a message.
GenericMessage == "An unexpected error occurred. Please try again."

ExpectedMessage == <<
    "API Key is missing or invalid. Please check your settings.",
    NoAudioDataMessage,
    "API usage limit exceeded. Please try again later.",
    "Content was flagged by safety filters. Please review and edit your articles.",
    "Network connection error. Please check your internet and try again.",
    "The AI service is currently overloaded. Please wait a moment and try again.",
    "API usage limit exceeded. Please try again later.",
    "Bad request",
    GenericMessage >>

\* The same, with the raw message (the empty string) for the last entry.
ClaimedMessage == [ExpectedMessage EXCEPT ![Len(ExpectedMessage)] = ""]

\* The block that ran last is the failure of the last-issued request.
FailedLatest ==
    event.outcome \in {"rejected", "nodata"} /\ event.req = Len(requests)

\* C9 as stated: every failure of the last-issued request ends in the error
\* state with the message of its first matching category, and with the raw
\* underlying message when no category matches.

C9_UnclassifiedIsRawMessage ==
    FailedLatest =>
        /\ event.error \in Errors
        /\ generationState = [status |-> "error", error |-> ClaimedMessage[event.error]]

\* C9 as amended: every failure of the last-issued request ends in the
\* error state with the message of its first matching category; when no
\* category matches, with the raw underlying message, or with the generic
\* "unexpected error" sentence when that message is empty or absent.
C9_FailureIsClassified ==
    FailedLatest =>
        /\ event.error \in Errors
        /\ generationState = [status |-> "error", error |-> ExpectedMessage[event.error]]

C9_Witness ==
    /\ FailedLatest
    /\ event.op = "summarize"
    /\ generationState.error = "API usage limit exceeded. Please try again later."
    /\ ErrorText[event.error] = "Network quota"

\* C10: an accepted generate call made from idle, ready or error leaves the
\* generation state summarizing and the published summary and audio
\* buffer empty.
C10_GenerateResets ==
    (event.op = "generate" /\ event.outcome = "issued"
        /\ event.prev \in {"idle", "ready", "error"})
    => (generationState = State("summarizing") /\ summaryText = 0 /\ audioBuffer = 0)

C10_Witness ==
    /\ event.op = "generate" /\ event.outcome = "issued" /\ event.prev = "ready"
    /\ generationState.status = "summarizing"
    /\ audioBuffer = 0

\* ------------------------------------------------------- claims: Player
\* C11: in every state the Player reaches by play, pause, stop, pitch
\* changes, clock advance and natural completion, the accumulated
\* paused-offset pauseTimeRef lies between 0 and the duration of the buffer.
C11_PausedOffsetWithinBuffer == pauseTimeRef >= 0 /\ pauseTimeRef <= duration

\* C12: a play() that follows a pause() starts the new source at exactly
\* the paused-offset that pause accumulated, whatever the elapsed time and
\* the reported progress were at the moment of the pause.
C12_PlayAfterPauseResumesAtOffset ==
    [][(playerEvent.last = "pause" /\ playerEvent'.last = "play")
         => sourceNodeRef'.offset = pauseTimeRef]_vars

\* C13: a play() that follows a stop() starts its source at offset 0,
\* whatever the Player was doing when stop() was called.
C13_PlayAfterStopStartsAtZero ==
    (playerEvent.before = "stop" /\ playerEvent.last = "play")
        => (sourceNodeRef.offset = 0 /\ pauseTimeRef = 0)

C13_Witness ==
    /\ playerEvent.before = "stop"
    /\ playerEvent.last = "play"
    /\ sourceNodeRef.state = "playing"
    /\ sourceNodeRef.offset = 0
    /\ startTimeRef > 0

\* C14: the reported progress always lies between 0% and 100%, and while
\* the transport is playing it never decreases from one step to the next,
\* the first tick after a play() from paused or from a finished playback
\* included.
C14_ProgressNeverDecreasesWhilePlaying ==
    /\ [](progress >= 0 /\ progress <= 100 * duration)
    /\ [][(isPlaying /\ isPlaying') => progress' >= progress]_vars

\* C15: stop() can be called in every state, and from the call until the
\* next play() no source is active, no "ended" event still to come has a
\* handler, paused-offset and progress are 0, the transport is not playing
\* and no progress tick is pending: neither a tick nor a completion event
\* moves progress away from 0.
C15_StopResetsUntilNextPlay ==
    /\ ENABLED stopAudio
    /\ playerEvent.last = "stop" =>
          /\ sourceNodeRef = Null
          /\ \A e \in endedEvents : ~e.onended
          /\ pauseTimeRef = 0
          /\ progress = 0
          /\ ~isPlaying
          /\ ~animationFrameRef

\* stop() halted the source of a play(), the clock has moved on and the
\* completion event of that source has been dispatched.
C15_Witness ==
    /\ playerEvent.before = "play"
    /\ playerEvent.last = "stop"
    /\ currentTime > startTimeRef
    /\ endedEvents = {}
    /\ progress = 0

\* The step is the pause() of a source that play() started at offset 0 and
\* that has played at unity pitch for less than the duration of the buffer.
PauseOfUnityPlayFromZero ==
    /\ playerEvent.last = "play"
    /\ playerEvent'.last = "pause"
    /\ sourceNodeRef.offset = 0
    /\ sourceNodeRef.detune = 0
    /\ sourceNodeRef.pos = Quarters(currentTime - startTimeRef)
    /\ currentTime - startTimeRef < duration

\* The step is a progress tick: an animation frame is pending and nothing
\* but progress and the pending frame changes.
ProgressTick ==
    /\ animationFrameRef
    /\ UNCHANGED <<duration, currentTime, isPlaying, pitch, sourceNodeRef,
                   startTimeRef, pauseTimeRef, endedEvents, playerEvent>>

\* C16 (as stated): play() from offset 0 at clock t0 at unity pitch and
\* pause() at t0 + e with 0 <= e < D leave paused-offset = e, the transport
\* paused and the reported progress = e / D.
C16_PauseReportsElapsedProgress ==
    [][PauseOfUnityPlayFromZero =>
          /\ pauseTimeRef' = currentTime - startTimeRef
          /\ ~isPlaying'
          /\ progress' = 100 * (currentTime - startTimeRef)]_vars

\* C16 (amended): play() from offset 0 at clock t0 at unity pitch and
\* pause() at t0 + e with 0 <= e < D leave paused-offset = e and the
\* transport paused, and pause() leaves the reported progress as it was;
\* a progress tick of that playback at t0 + e reports e / D.
C16_PauseKeepsLastReportedProgress ==
    /\ [][PauseOfUnityPlayFromZero =>
             /\ pauseTimeRef' = currentTime - startTimeRef
             /\ ~isPlaying'
             /\ sourceNodeRef' = Null
             /\ progress' = progress]_vars
    /\ [][(ProgressTick /\ sourceNodeRef.offset = 0
              /\ currentTime - startTimeRef < duration)
            => progress' = 100 * (currentTime - startTimeRef)]_vars

\* A playback from offset 0 at unity pitch was paused after e > 0 seconds,
\* after a tick had reported e / D.
C16_Witness ==
    /\ playerEvent.before = "play"
    /\ playerEvent.last = "pause"
    /\ ~isPlaying
    /\ pitch = 0
    /\ pauseTimeRef > 0
    /\ pauseTimeRef < duration
    /\ startTimeRef > 0
    /\ progress = 100 * pauseTimeRef

Clamped(v) == Max(MinPitch, Min(MaxPitch, v))

Distance(a, b) == IF a < b THEN b - a ELSE a - b

InPitchRange(cents) == cents >= MinPitch /\ cents <= MaxPitch

\* A step that hands the slider no new value leaves the stored pitch and
\* the detune of the referenced source as they are: a second, equal change
\* of the pitch is such a step.
SamePitchInputKeepsPitch ==
    [][playerEvent' = playerEvent =>
          (pitch' = pitch /\ sourceNodeRef'.detune = sourceNodeRef.detune)]_vars

\* C17 (as stated): after a pitch change to v the stored pitch is v clamped
\* to [-400, 400]; the stored pitch and the detune of the source are within
\* [-400, 400] in every state; and changing the pitch to v twice is the same
\* as changing it once.
C17_PitchIsClampedValue ==
    /\ [](/\ pitch = Clamped(playerEvent.value)
          /\ InPitchRange(pitch)
          /\ InPitchRange(sourceNodeRef.detune))
    /\ SamePitchInputKeepsPitch

\* C17 (amended): after a pitch change to v the stored pitch is the multiple
\* of the slider's step of 10 that is nearest to v clamped to [-400, 400]
\* (the higher of two equally near); the stored pitch and the detune of the
\* source are within [-400, 400] in every state; and changing the pitch to
\* v twice is the same as changing it once.
C17_PitchIsClampedSteppedValue ==
    /\ [](/\ pitch % PitchStep = 0
          /\ 2 * Distance(pitch, Clamped(playerEvent.value)) <= PitchStep
          /\ 2 * Distance(pitch, Clamped(playerEvent.value)) = PitchStep
                => pitch > Clamped(playerEvent.value)
          /\ InPitchRange(pitch)
          /\ InPitchRange(sourceNodeRef.detune))
    /\ SamePitchInputKeepsPitch

\* The slider was asked for a value beyond its maximum while a source was
\* playing: pitch and detune are the maximum.
C17_Witness ==
    /\ playerEvent.value > MaxPitch
    /\ pitch = MaxPitch
    /\ sourceNodeRef.state = "playing"
    /\ sourceNodeRef.detune = MaxPitch

\* C18: whenever a source is active its detune is the stored pitch, and a
\* pitch change leaves the transport state, the paused-offset, the start
\* time and the pending "ended" events as they are and the referenced
\* source the same node in the same playback, with the new pitch as its
\* detune; with no active source it only stores the value.
C18_DetuneFollowsPitch ==
    /\ [](sourceNodeRef # Null => sourceNodeRef.detune = pitch)
    /\ [][pitch' # pitch =>
             /\ UNCHANGED <<isPlaying, pauseTimeRef, startTimeRef, progress,
                            animationFrameRef, endedEvents>>
             /\ sourceNodeRef' = IF sourceNodeRef # Null
                                 THEN [sourceNodeRef EXCEPT !.detune = pitch']
                                 ELSE Null]_vars

\* A source has played at unity and then at +400 cents: the pitch was
\* changed while it played, and it plays on with the new detune.
C18_Witness ==
    /\ sourceNodeRef.state = "playing"
    /\ sourceNodeRef.pos = Rate(0) + Rate(MaxPitch)
    /\ sourceNodeRef.offset = 0
    /\ currentTime = startTimeRef + 2
    /\ sourceNodeRef.detune = MaxPitch
    /\ pitch = MaxPitch

\* C19: the source the Player refers to has the completion handler, and
\* from the natural completion of a source until the next transport
\* operation the paused-offset is 0, the transport is not playing, the
\* progress is 100% and no source is active; and a play() that follows the
\* natural completion starts its source at offset 0.
C19_NaturalCompletionResets ==
    /\ sourceNodeRef # Null => sourceNodeRef.onended
    /\ playerEvent.last = "ended" =>
          /\ pauseTimeRef = 0
          /\ ~isPlaying
          /\ progress = 100 * duration
          /\ sourceNodeRef = Null
          /\ ~animationFrameRef
    /\ (playerEvent.before = "ended" /\ playerEvent.last = "play") =>
          (sourceNodeRef.offset = 0 /\ pauseTimeRef = 0)

\* A source has played to its end, and the play() that followed is under
\* way from offset 0.
C19_Witness ==
    /\ playerEvent.before = "ended"
    /\ playerEvent.last = "play"
    /\ sourceNodeRef.state = "playing"
    /\ sourceNodeRef.offset = 0
    /\ currentTime > startTimeRef
    /\ startTimeRef > 0

\* The step dispatches the "ended" event of a node that pause() halted.
PausedSourceEnded ==
    \E e \in endedEvents :
        /\ e.stoppedBy = "pause"
        /\ endedEvents' = endedEvents \ {e}

\* C20: the completion event of a source that pause() halted, whenever it
\* is dispatched (also after a new play()), does not run the completion
\* handler: transport state, paused-offset, progress, the active source and
\* the progress loop stay as they are.
C20_PausedSourceNeverCompletes ==
    [][PausedSourceEnded =>
          /\ UNCHANGED <<isPlaying, pauseTimeRef, progress, sourceNodeRef,
                         startTimeRef, animationFrameRef>>
          /\ playerEvent'.last = playerEvent.last]_vars

\* The completion event of a paused source was dispatched after the play()
\* that resumed the playback, and the new source plays on.
C20_Witness ==
    /\ playerEvent.before = "pause"
    /\ playerEvent.last = "play"
    /\ playerEvent.dropped = "pause"
    /\ isPlaying
    /\ sourceNodeRef.state = "playing"
    /\ sourceNodeRef.offset > 0
    /\ currentTime > startTimeRef

\* The step dispatches the "ended" event of a node the Player no longer
\* refers to.
UnreferencedSourceEnded ==
    \E e \in endedEvents : endedEvents' = endedEvents \ {e}

C23_PauseWithoutSourceChangesNothing ==
    /\ [][(playerEvent'.ignored /\ ~playerEvent.ignored) =>
             /\ UNCHANGED <<pauseTimeRef, startTimeRef, progress, isPlaying,
                            pitch, sourceNodeRef, animationFrameRef,
                            endedEvents>>
             /\ playerEvent'.last = playerEvent.last]_vars
    /\ [][(/\ playerEvent' = TransportEvent("pause")
            /\ playerEvent' # playerEvent) =>
             (sourceNodeRef # Null /\ isPlaying)]_vars

\* pause() has been called again after a pause that stored a positive
\* offset, and found no source.
C23_Witness ==
    /\ playerEvent.ignored
    /\ playerEvent.last = "pause"
    /\ ~isPlaying
    /\ sourceNodeRef = Null
    /\ pauseTimeRef > 0
    /\ currentTime > startTimeRef

\* C24: in every state with generation status ready the published audio
\* buffer and the published summary are both present and were produced by
\* the same generation request, the latest-issued one.
C24_ReadyPublishesLatestRequest ==
    generationState.status = "ready" =>
        /\ audioBuffer # 0
        /\ summaryText # 0
        /\ audioBuffer = summaryText
        /\ audioBuffer = Len(requests)

\* The request that is current: issued under the marker the ref holds, and
\* not settled yet.
PendingCurrentRequest ==
    \E r \in 1..Len(requests) :
        /\ requests[r].pc # "done"
        /\ requests[r].currentRequestTime = lastGenRequestRef

\* C26: a generate call made with an empty queue or without an audio
\* context changes nothing: the generation state, the published summary,
\* the published audio buffer, the latest-issue marker and the requests in
\* flight are as before the call, so a pending request stays current.
C26_IgnoredGenerateIsNoOp ==
    [][(event'.op = "generate" /\ event'.outcome = "ignored") =>
          /\ UNCHANGED <<generationState, summaryText, audioBuffer,
                         lastGenRequestRef, requests>>
          /\ (PendingCurrentRequest => PendingCurrentRequest')]_vars

\* A generate call was ignored on an empty queue, later than the issue of
\* a request that is still pending and still current.
C26_Witness ==
    /\ event.op = "generate"
    /\ event.outcome = "ignored"
    /\ articles = <<>>
    /\ PendingCurrentRequest
    /\ now > lastGenRequestRef

InFlight == generationState.status \in {"summarizing", "generating_audio"}

Settled == generationState.status \in {"ready", "error", "idle"}

\* C25: when every remote call completes or fails in the end and no
\* further generate call is issued, the generation state does not stay in
\* summarizing or generating_audio forever: from every state with one of
\* these statuses the program reaches ready, error or idle, or else another
\* generate call is issued.
C25_GenerationSettles ==
    \A n \in 0..MaxRequests :
        (InFlight /\ Len(requests) = n) ~> (Settled \/ Len(requests) > n)

\* The last request that was issued has failed in generateSpeech and the
\* state is error, with no request left in flight.
C25_Witness ==
    /\ generationState.status = "error"
    /\ event.op = "speech"
    /\ event.outcome \in {"rejected", "nodata"}
    /\ event.req = Len(requests)
    /\ \A r \in 1..Len(requests) : requests[r].pc = "done"

\* No Player is mounted and no source sounds: no node is referenced, no
\* frame is pending, and every node that was let go of has been stopped
\* with its handler detached.
NoActiveSource ==
    /\ ~PlayerMounted
    /\ sourceNodeRef = Null
    /\ ~animationFrameRef
    /\ \A e \in endedEvents : e.stoppedBy # "none" /\ ~e.onended

\* Outside of ready the Player is torn down.
TornDownOutsideReady ==
    generationState.status # "ready" => NoActiveSource

\* C27: whenever the generation state is not ready no playback source is
\* active: leaving ready has unmounted the Player and halted the source it
\* referred to with the completion handler detached, and so the audio of a
\* superseded buffer never keeps playing: a node the Player refers to
\* plays the published buffer.
C27_NoSourceOfSupersededBuffer ==
    /\ TornDownOutsideReady
    /\ sourceNodeRef # Null => sourceNodeRef.buffer = audioBuffer

\* Auto-update has been on since the queue last changed, and the queue is
\* not empty.
AutoUpdateOfQueue == burst.auto /\ Len(articles) > 0

\* The timeout is the one the last change of the queue set, no call was
\* made since, and the call will read the queue of that change; or the
\* timeout has run, with one call made 1.5 s after the change.
OneCallAfterLastChange ==
    IF timer.armed
    THEN /\ burst.calls = 0
         /\ timer.remaining = DebounceMs - burst.since
         /\ timer.articles = articles
    ELSE /\ burst.calls = 1
         /\ burst.since = DebounceMs

\* A timeout calls handleGenerate only when its delay has passed, with
\* auto-update on and a queue that is not empty, and the call is issued.
TimerCallsWhenDue ==
    burst'.calls # burst.calls /\ burst'.calls # 0 =>
        /\ autoGenerate /\ Len(articles) > 0
        /\ timer.armed /\ timer.remaining = 0
        /\ event'.op = "generate" /\ event'.outcome = "issued"

\* With auto-update off or an empty queue no timeout is pending.
CancelledWhenOffOrEmpty ==
    (~autoGenerate \/ Len(articles) = 0) => ~timer.armed

\* C22, as stated: with auto-update on and a queue that is not empty, a
\* burst of queue changes issues exactly one generate call, 1.5 s after
\* the last change and for the queue of that change; a change that empties
\* the queue, or switching auto-update off, cancels the pending timeout and
\* no call follows.
C22_OneCallAfterLastQueueChange ==
    /\ [](AutoUpdateOfQueue => OneCallAfterLastChange)
    /\ [](CancelledWhenOffOrEmpty)
    /\ [][TimerCallsWhenDue]_vars

\* C22, amended: the same, as long as the selected voice has not been
\* changed since the queue last changed; a change of the voice sets the
\* timeout anew as a change of the queue does.
C22_OneCallAfterLastChangeOfQueueOrVoice ==
    /\ []((AutoUpdateOfQueue /\ ~burst.voice) => OneCallAfterLastChange)
    /\ [](CancelledWhenOffOrEmpty)
    /\ [][TimerCallsWhenDue]_vars

\* Two articles are queued, the second one with auto-update on, and the
\* only generate call of the run has just been made by the timeout, 1.5 s
\* after the queue last changed.
C22_Witness ==
    /\ AutoUpdateOfQueue
    /\ ~burst.voice
    /\ Len(articles) = 2
    /\ burst.calls = 1
    /\ burst.since = DebounceMs
    /\ ~timer.armed
    /\ Len(requests) = 1
    /\ event.op = "generate"
    /\ event.outcome = "issued"
====
